---- MODULE Spec2Model ----
(***************************************************************************)
(* State-machine model of rez's build/release orchestration                *)
(* (src/src/rez/build_process.py): BuildProcess and                        *)
(* LocalSequentialBuildProcess.  One process object works on one package   *)
(* name; the file system (build tree, release path), the VCS and the clock *)
(* persist between invocations of build() and release().                   *)
(***************************************************************************)
EXTENDS Integers, Sequences, FiniteSets, TLC

(* ------------------------------- bounds -------------------------------- *)
\* Versions of the package are 1..MaxVersion; 0 is the empty version.
MaxVersion == 3
\* VCS revisions are 1..MaxRevision.
MaxRevision == 2
\* The clock (time.time()) runs over 0..MaxTime.
MaxTime == 1
\* build() and release() are invoked at most MaxRuns times in a behaviour.
MaxRuns == 4

(* ------------------------------ data model ----------------------------- *)
\* An absent value (Python None) is the empty sequence, a present one <<x>>.
None == <<>>
Some(x) == <<x>>

\* ExactVersion(''): the empty version, below every other version.
EmptyVersion == 0
Versions == 1..MaxVersion

\* ExactVersion(self.metadata.get("version", ''))
ExactVersion(v) == IF v = None THEN EmptyVersion ELSE v[1]

Tokens == {"a", "B"}
\* encode_filesystem_name: deterministic and collision-free on the tokens.
encode_filesystem_name(x) == CASE x = "a" -> "a" [] x = "B" -> "_b" [] OTHER -> "_"

\* The variant lists a package descriptor may declare.
VariantChoices ==
    { <<>>,
      << <<"a">> >>,
      << <<"a">>, <<"a", "B">> >> }
BuildRequiresChoices == { <<"cmake">> }
RequiresChoices == { <<"bar">> }

\* load_package_metadata(working_dir): the descriptors a working tree may hold.
Descriptors ==
    [ version : {Some(v) : v \in Versions},
      build_requires : BuildRequiresChoices,
      requires : RequiresChoices,
      variants : VariantChoices ]

\* The descriptors of local builds: a package.yaml may also have no version.
\* (Releases are modelled for versioned packages: how a package with no
\* version is enumerated at the release path is outside these sources.)
LocalDescriptors ==
    Descriptors \cup [ version : {None},
                       build_requires : BuildRequiresChoices,
                       requires : RequiresChoices,
                       variants : VariantChoices ]

\* self.metadata["name"]
Name == "pkg"
\* str(ver)
str(v) == ToString(v)

(* -------------------------------- paths -------------------------------- *)
\* A path is a sequence of components.  A value handed to os.path.join is
\* either a string (kind "str", its components in parts) or a Python list
\* (kind "list").
EmptyStr == [kind |-> "str", parts |-> <<>>]

\* os.path.join(a) with a single argument returns that argument unchanged:
\* handed the list dirs, it returns the list.
os_path_join_1(dirs) == [kind |-> "list", parts |-> dirs]

\* os.path.join(base, b) needs b.startswith: a list has none (AttributeError).
Joinable(b) == b.kind = "str"
os_path_join(base, b) == base \o b.parts

IsPrefix(p, q) == Len(p) <= Len(q) /\ SubSeq(q, 1, Len(p)) = p

\* self.working_dir / self.settings.build_directory
BuildDirectory == <<"build">>
\* build(): base_build_path
LocalBuildBase == BuildDirectory
\* release(): base_build_path = build_directory/release
ReleaseBuildBase == BuildDirectory \o <<"release">>

(* --------------------------- _get_build_list --------------------------- *)
\* dirs = [encode_filesystem_name(x) for x in variant]
EncodedDirs(variant) == [k \in 1..Len(variant) |-> encode_filesystem_name(variant[k])]

BuildOfVariant(md, k) ==
    [ variant_index |-> Some(k - 1),
      subdir |-> os_path_join_1(EncodedDirs(md.variants[k])),
      requires |-> md.build_requires \o md.requires \o md.variants[k] ]

\* _get_build_list with the build-time requirements left out.
_get_build_list_requires(md) ==
    IF md.variants # <<>>
    THEN [k \in 1..Len(md.variants) |->
            [BuildOfVariant(md, k) EXCEPT !.requires = md.requires \o md.variants[k]]]
    ELSE << [ variant_index |-> None,
              subdir |-> EmptyStr,
              requires |-> md.requires ] >>

_get_build_list(md) ==
    IF md.variants # <<>>
    THEN [k \in 1..Len(md.variants) |-> BuildOfVariant(md, k)]
    ELSE << [ variant_index |-> None,
              subdir |-> EmptyStr,
              requires |-> md.build_requires \o md.requires ] >>

\* _get_base_install_path with str(ver) joined on whatever ver is.
_get_base_install_path_str(md, path) ==
    <<path, Name>> \o (IF md.version # None THEN <<str(md.version[1])>> ELSE <<"None">>)

\* _get_base_install_path(path): path/name, then /str(version) when the
\* package has a version.
_get_base_install_path(md, path) ==
    <<path, Name>> \o (IF md.version # None THEN <<str(md.version[1])>> ELSE <<>>)

(* ------------------------------ file system ---------------------------- *)
\* os.path.exists(build_path)
Exists(dirs, p) == p \in dirs

Ancestors(p) == { SubSeq(p, 1, k) : k \in 1..Len(p) }

\* shutil.rmtree(build_path): the directory and everything below it.
RmtreeDirs(dirs, p) == { d \in dirs : ~IsPrefix(p, d) }
RmtreeCache(c, p) == [ d \in { q \in DOMAIN c : ~IsPrefix(p, q) } |-> c[d] ]

\* os.makedirs(build_path): the directory and its missing parents.
Makedirs(dirs, p) == dirs \cup Ancestors(p)

(* ----------------------------- collaborators --------------------------- *)
\* iter_packages_in_range(name, paths=[release_path]): the installed
\* versions, in an enumeration order the caller does not control.
RECURSIVE Orders(_)
Orders(S) ==
    IF S = {} THEN { <<>> }
    ELSE UNION { { <<x>> \o t : t \in Orders(S \ {x}) } : x \in S }

iter_packages_in_range(inst) == Orders(inst)

\* The resolver returns an environment (TRUE) or fails with ResolutionError
\* (FALSE) when the request cannot be satisfied.
ResolverOutcomes == BOOLEAN

\* ResolvedContext(request, timestamp=int(time.time()), build_requires=True)
ResolvedContext(request, t) == [ request |-> request, timestamp |-> t ]

\* vcs.get_changelog(last_rev): the entries after last_rev up to the head.
get_changelog(last_rev, hd) == [ since |-> last_rev, upto |-> hd ]

\* What buildsys.build may report in ret["extra_files"].
ExtraFilesChoices == { <<>>, <<"lib.so">> }

(* --------------------------- _get_last_release ------------------------- *)
Returned(pkg, info) == [ kind |-> "return", exc |-> "", pkg |-> pkg, info |-> info ]
Raised(e) == [ kind |-> "raise", exc |-> e, pkg |-> None, info |-> None ]

\* The loop over the enumerated packages: a package at or above ver raises
\* (ensure_latest), the first package below ver is returned with the record
\* read from its release.yaml (IOError when the file is missing).
RECURSIVE _get_last_release(_, _, _, _)
_get_last_release(order, ver, recs, ensure_latest) ==
    IF order = <<>> THEN Returned(None, None)
    ELSE LET pkg == Head(order) IN
         IF pkg >= ver
         THEN IF ensure_latest THEN Raised("ReleaseError")
              ELSE _get_last_release(Tail(order), ver, recs, ensure_latest)
         ELSE IF recs[pkg] = None THEN Raised("IOError")
              ELSE Returned(Some(pkg), recs[pkg])

(* -------------------------------- state -------------------------------- *)
VARIABLES
    installed,  \* versions with a package at the release path
    records,    \* version -> None or Some(release.yaml contents)
    runs,       \* invocations of build() and release() so far
    head,       \* the VCS's current revision
    now,        \* the clock
    bdirs,      \* existing build directories (paths)
    cache,      \* build path -> environment saved in its build.rxt
    metadata,   \* self.metadata
    pc,         \* position of the running invocation
    call,       \* arguments of the running _build call
    builds,     \* _build: the list from _get_build_list
    i,          \* _build: 1-based position in builds
    r,          \* _build: the environment of the current unit
    plan,       \* the units for which buildsys.build will report failure
    last,       \* release: (last_pkg, last_release_info)
    info,       \* release: curr_rev and changelog
    result,     \* None while running, Some(return value) after a return
    exc,        \* the exception that ended the invocation, "" when none
    trace,      \* calls made by the running (or last) invocation, in order
    pre,        \* the file system when the invocation, then each _build, began
    retry       \* the process re-runs a release that failed at its tag

persistent == <<installed, records, head, now, bdirs, cache>>
process == <<metadata, pc, call, builds, i, r, plan, last, info, result, exc, trace,
            pre, retry>>
vars == <<installed, records, runs, head, now, bdirs, cache,
          metadata, pc, call, builds, i, r, plan, last, info, result, exc, trace,
          pre, retry>>

NoCall == [ pass |-> "", clean |-> FALSE, install |-> FALSE,
            base |-> <<>>, root |-> "" ]
NoLast == [ pkg |-> None, info |-> None ]
NoInfo == [ curr_rev |-> None, changelog |-> None ]

\* One entry of trace.
\* path: the build path; dest: the install path; files: ret["extra_files"]
\* as _build uses it (under "if install"); file: the file of one shutil.copy.
Ev(op) == [ op |-> op, ok |-> TRUE, pass |-> "", unit |-> 0, install |-> FALSE,
            env |-> None, path |-> <<>>, dest |-> <<>>, files |-> <<>>, file |-> "" ]

\* One entry of trace made by the loop of _build for the unit at position i.
BEv(op, bpath) == [ Ev(op) EXCEPT !.pass = call.pass, !.unit = i,
                                  !.install = call.install, !.path = bpath ]

\* The file system as pre holds it.
Snapshot == [ installed |-> installed, records |-> records,
              bdirs |-> bdirs, cache |-> cache ]
NoSnapshot == [ installed |-> {}, records |-> <<>>, bdirs |-> {}, cache |-> <<>> ]

Ready == pc = "ready" /\ runs < MaxRuns
ver == ExactVersion(metadata.version)

\* The state before the first invocation, the working tree holding one of
\* the descriptors D.
InitOver(D) ==
    /\ installed = {}
    /\ records = [v \in Versions |-> None]
    /\ runs = 0
    /\ head = 1
    /\ now = 0
    /\ bdirs = {}
    /\ cache = <<>>
    /\ metadata \in D
    /\ pc = "ready"
    /\ call = NoCall
    /\ builds = <<>>
    /\ i = 0
    /\ r = None
    /\ plan = {}
    /\ last = NoLast
    /\ info = NoInfo
    /\ result = None
    /\ exc = ""
    /\ trace = <<>>
    /\ pre = NoSnapshot
    /\ retry = FALSE

Init == InitOver(Descriptors)
InitBuild == InitOver(LocalDescriptors)

\* The invocation that just ended was a release that wrote its record and
\* then failed to create the tag.
TagFailed ==
    /\ pc = "raised" /\ exc = "VcsError"
    /\ trace # <<>> /\ trace[Len(trace)].op = "create_release_tag"

(* ----------------------------- environment ----------------------------- *)
\* __init__: a process object is created over the working tree, whose
\* package.yaml (one of D) may have been edited since the last invocation.
Construct(D) ==
    /\ pc \in {"done", "raised"}
    /\ metadata' \in D
    /\ retry' = (TagFailed /\ metadata'.version = metadata.version)
    /\ pc' = "ready"
    /\ call' = NoCall /\ builds' = <<>> /\ i' = 0 /\ r' = None /\ plan' = {}
    /\ last' = NoLast /\ info' = NoInfo /\ result' = None /\ exc' = ""
    /\ trace' = <<>>
    /\ pre' = NoSnapshot
    /\ UNCHANGED <<persistent, runs>>

__init__ == Construct(Descriptors)
\* __init__ over the working tree of a local build.
__init__local == Construct(LocalDescriptors)

\* A commit moves the VCS head (between invocations).
Commit ==
    /\ pc = "ready"
    /\ head < MaxRevision
    /\ head' = head + 1
    /\ UNCHANGED <<installed, records, runs, now, bdirs, cache, process>>

\* time.time() advances.
Tick ==
    /\ pc \notin {"done", "raised"}
    /\ now < MaxTime
    /\ now' = now + 1
    /\ UNCHANGED <<installed, records, runs, head, bdirs, cache, process>>

(* -------------------------------- _build ------------------------------- *)
\* Entry of _build: the arguments, builds = self._get_build_list(), and the
\* loop's first position.  plan is what the build system will answer.
Enter_build(pass, clean, install, base, root) ==
    /\ call' = [ pass |-> pass, clean |-> clean, install |-> install,
                 base |-> base, root |-> root ]
    /\ builds' = _get_build_list(metadata)
    /\ i' = 1
    /\ r' = None
    /\ plan' \in SUBSET (1..Len(_get_build_list(metadata)))
    /\ pre' = Snapshot
    /\ pc' = "b_dirs"

\* The invocation ends with exception e.
Raise(e) == pc' = "raised" /\ exc' = e

\* The caller going on whatever _build returned (release() without its
\* "if not ...: return False").
Return_build_unchecked(ret) ==
    IF call.pass = "local"
    THEN pc' = "done" /\ result' = Some(ret)
    ELSE /\ pc' = (IF call.pass = "verify" THEN "install" ELSE "info")
         /\ result' = result

\* _build returns ret to its caller: build() returns it; release() returns
\* False on False and goes on to the next stage on True.
Return_build(ret) ==
    IF call.pass = "local" \/ ~ret
    THEN pc' = "done" /\ result' = Some(ret)
    ELSE /\ pc' = (IF call.pass = "verify" THEN "install" ELSE "info")
         /\ result' = result

build_path_of(bld) == os_path_join(call.base, bld.subdir)
install_path_of(bld) ==
    os_path_join(_get_base_install_path(metadata, call.root), bld.subdir)

\* Loop body, lines 219-227: the paths of the unit, then the build directory
\* is removed (clean) and created.
_build_dirs ==
    /\ pc = "b_dirs"
    /\ IF ~Joinable(builds[i].subdir)
       THEN /\ Raise("AttributeError")
            /\ UNCHANGED <<bdirs, cache, trace>>
       ELSE LET build_path == build_path_of(builds[i])
                removed == call.clean /\ Exists(bdirs, build_path)
                d1 == IF removed THEN RmtreeDirs(bdirs, build_path) ELSE bdirs
                c1 == IF removed THEN RmtreeCache(cache, build_path) ELSE cache
                made == ~Exists(d1, build_path)
            IN  /\ bdirs' = (IF made THEN Makedirs(d1, build_path) ELSE d1)
                /\ cache' = c1
                /\ trace' = trace
                      \o (IF removed
                          THEN <<BEv("rmtree", build_path)>>
                          ELSE <<>>)
                      \o (IF made
                          THEN <<BEv("makedirs", build_path)>>
                          ELSE <<>>)
                /\ pc' = "b_env"
                /\ exc' = exc
    /\ UNCHANGED <<installed, records, runs, head, now,
                   metadata, retry, call, builds, i, r, plan, last, info, result, pre>>

\* The cache file never looked at: every build resolves.
CacheHitNever(c, p) == FALSE

\* os.path.exists(rxt_path)
CacheHit(c, p) == p \in DOMAIN c

\* _build going on with no environment when the resolver fails.
_build_env_unresolved ==
    /\ pc = "b_env"
    /\ LET build_path == build_path_of(builds[i]) IN
       IF CacheHit(cache, build_path)
       THEN /\ r' = Some(cache[build_path])
            /\ trace' = Append(trace, [BEv("load", build_path) EXCEPT
                                          !.env = Some(cache[build_path])])
            /\ pc' = "b_run"
            /\ UNCHANGED <<cache, exc>>
       ELSE \E ok \in ResolverOutcomes :
              LET e == ResolvedContext(builds[i].requires, now)
                  res == [BEv("resolve", build_path) EXCEPT !.ok = ok]
              IN  IF ok
                  THEN /\ r' = Some(e)
                       /\ cache' = [ d \in DOMAIN cache \cup {build_path} |->
                                       IF d = build_path THEN e ELSE cache[d] ]
                       /\ trace' = trace \o << [res EXCEPT !.env = Some(e)],
                                                [BEv("save", build_path) EXCEPT
                                                    !.env = Some(e)] >>
                       /\ pc' = "b_run"
                       /\ exc' = exc
                  ELSE /\ trace' = Append(trace, res)
                       /\ pc' = "b_run"
                       /\ UNCHANGED <<r, cache, exc>>
    /\ UNCHANGED <<installed, records, runs, head, now, bdirs,
                   metadata, retry, call, builds, i, plan, last, info, result, pre>>

\* Loop body, lines 229-241: the environment is loaded from build.rxt when
\* the file exists, and is resolved and saved otherwise.
_build_env ==
    /\ pc = "b_env"
    /\ LET build_path == build_path_of(builds[i]) IN
       IF CacheHit(cache, build_path)
       THEN /\ r' = Some(cache[build_path])
            /\ trace' = Append(trace, [BEv("load", build_path) EXCEPT
                                          !.env = Some(cache[build_path])])
            /\ pc' = "b_run"
            /\ UNCHANGED <<cache, exc>>
       ELSE \E ok \in ResolverOutcomes :
              LET e == ResolvedContext(builds[i].requires, now)
                  res == [BEv("resolve", build_path) EXCEPT !.ok = ok]
              IN  IF ok
                  THEN /\ r' = Some(e)
                       /\ cache' = [ d \in DOMAIN cache \cup {build_path} |->
                                       IF d = build_path THEN e ELSE cache[d] ]
                       /\ trace' = trace \o << [res EXCEPT !.env = Some(e)],
                                                [BEv("save", build_path) EXCEPT
                                                    !.env = Some(e)] >>
                       /\ pc' = "b_run"
                       /\ exc' = exc
                  ELSE /\ Raise("ResolutionError")
                       /\ trace' = Append(trace, res)
                       /\ UNCHANGED <<r, cache>>
    /\ UNCHANGED <<installed, records, runs, head, now, bdirs,
                   metadata, retry, call, builds, i, plan, last, info, result, pre>>

\* The shutil.copy calls of one unit into ipath: extra_files, then build.rxt.
CopyEvents(extra, bpath, ipath) ==
    [ k \in 1..(Len(extra) + 1) |->
        [BEv("copy", bpath) EXCEPT !.file = (extra \o <<"build.rxt">>)[k],
                                   !.dest = ipath] ]

\* Loop body, lines 243-259: the build system runs; on success the files
\* are copied when installing and the loop goes on, on failure _build
\* returns False.  After the last unit _build returns True.
\* inst: the build system put the package into the install path.
_build_run ==
    /\ pc = "b_run"
    /\ \E extra \in ExtraFilesChoices, inst \in BOOLEAN :
         LET success == i \notin plan IN
         /\ (~success => extra = <<>>)
         /\ (success /\ call.install => inst)
         /\ (~call.install => ~inst)
         /\ installed' = (IF inst /\ call.root = "release"
                          THEN installed \cup {ver} ELSE installed)
         /\ trace' = Append(trace, [BEv("adapter", build_path_of(builds[i])) EXCEPT
                                       !.ok = success, !.env = r,
                                       !.files = IF call.install THEN extra ELSE <<>>,
                                       !.dest = install_path_of(builds[i])])
                      \o (IF success /\ call.install
                          THEN CopyEvents(extra, build_path_of(builds[i]),
                                          install_path_of(builds[i]))
                          ELSE <<>>)
         /\ IF success
            THEN IF i < Len(builds)
                 THEN i' = i + 1 /\ pc' = "b_dirs" /\ result' = result
                 ELSE i' = i /\ Return_build(TRUE)
            ELSE i' = i /\ Return_build(FALSE)
    /\ UNCHANGED <<records, runs, head, now, bdirs, cache,
                   metadata, retry, call, builds, r, plan, last, info, exc, pre>>

(* -------------------------------- build() ------------------------------ *)
\* build(install_path=None, clean, install), lines 148-158.
build ==
    /\ Ready
    /\ \E clean \in BOOLEAN, install \in BOOLEAN :
         Enter_build("local", clean, install, LocalBuildBase, "local")
    /\ runs' = runs + 1
    /\ UNCHANGED <<persistent, metadata, retry, last, info, result, exc, trace>>

(* ------------------------------- release() ----------------------------- *)
\* release() with the failure of validate_repostate swallowed.
release_unvalidated ==
    /\ Ready
    /\ \E dirty \in BOOLEAN :
         /\ trace' = <<[Ev("validate_repostate") EXCEPT !.ok = ~dirty]>>
         /\ pc' = "last" /\ exc' = ""
    /\ runs' = runs + 1
    /\ pre' = Snapshot
    /\ UNCHANGED <<persistent, metadata, retry, call, builds, i, r, plan, last, info, result>>

\* Lines 160-167: vcs.validate_repostate() raises on a dirty working tree.
release ==
    /\ Ready
    /\ \E dirty \in BOOLEAN :
         /\ trace' = <<[Ev("validate_repostate") EXCEPT !.ok = ~dirty]>>
         /\ IF dirty THEN Raise("ReleaseError") ELSE pc' = "last" /\ exc' = ""
    /\ runs' = runs + 1
    /\ pre' = Snapshot
    /\ UNCHANGED <<persistent, metadata, retry, call, builds, i, r, plan, last, info, result>>

\* Line 168: last_pkg, last_release_info = self._get_last_release(install_path)
release_last ==
    /\ pc = "last"
    /\ \E order \in iter_packages_in_range(installed) :
         LET res == _get_last_release(order, ver, records, TRUE) IN
         /\ trace' = Append(trace, Ev("iter_packages_in_range"))
                      \o (IF res.exc = "IOError" \/ res.pkg # None
                          THEN <<[Ev("read_record") EXCEPT !.ok = (res.kind = "return")]>>
                          ELSE <<>>)
         /\ IF res.kind = "raise"
            THEN Raise(res.exc) /\ last' = last
            ELSE pc' = "verify" /\ exc' = exc
                 /\ last' = [ pkg |-> res.pkg, info |-> res.info ]
    /\ UNCHANGED <<persistent, runs, metadata, retry, call, builds, i, r, plan, info, result, pre>>

\* Lines 170-175: the initial build, install=False, clean=True.
release_verify ==
    /\ pc = "verify"
    /\ Enter_build("verify", TRUE, FALSE, ReleaseBuildBase, "release")
    /\ UNCHANGED <<persistent, runs, metadata, retry, last, info, result, exc, trace>>

\* The second build asked to clean as the first one is.
release_install_clean ==
    /\ pc = "install"
    /\ Enter_build("install", TRUE, TRUE, ReleaseBuildBase, "release")
    /\ UNCHANGED <<persistent, runs, metadata, retry, last, info, result, exc, trace>>

\* Lines 178-183: the second build, install=True, clean=False.
release_install ==
    /\ pc = "install"
    /\ Enter_build("install", FALSE, TRUE, ReleaseBuildBase, "release")
    /\ UNCHANGED <<persistent, runs, metadata, retry, last, info, result, exc, trace>>

\* last_rev = (last_release_info or {}).get("revision")
last_rev == IF last.info = None THEN None ELSE Some(last.info[1].revision)

\* Lines 186-198: the VCS is asked for the revision and the changelog.
release_info ==
    /\ pc = "info"
    /\ \E ok \in BOOLEAN :
         IF ok
         THEN /\ info' = [ curr_rev |-> Some(head),
                           changelog |-> Some(get_changelog(last_rev, head)) ]
              /\ trace' = trace \o <<Ev("get_current_revision"), Ev("get_changelog")>>
              /\ pc' = "write" /\ exc' = exc
         ELSE /\ Raise("VcsError")
              /\ trace' = Append(trace, [Ev("get_current_revision") EXCEPT !.ok = FALSE])
              /\ info' = info
    /\ UNCHANGED <<persistent, runs, metadata, retry, call, builds, i, r, plan, last, result, pre>>

\* release_info = dict(revision, changelog, previous_version, previous_revision)
release_record ==
    [ revision |-> info.curr_rev[1],
      changelog |-> info.changelog[1],
      previous_version |-> last.pkg,
      previous_revision |-> last_rev ]

\* Lines 200-202: release.yaml is written into the release path.
release_write ==
    /\ pc = "write"
    /\ records' = [records EXCEPT ![ver] = Some(release_record)]
    /\ trace' = Append(trace, Ev("write_record"))
    /\ pc' = "tag"
    /\ UNCHANGED <<installed, runs, head, now, bdirs, cache,
                   metadata, retry, call, builds, i, r, plan, last, info, result, exc, pre>>

\* release_tag undoing the record when the tag cannot be created.
release_tag_rollback ==
    /\ pc = "tag"
    /\ \E ok \in BOOLEAN :
         /\ trace' = Append(trace, [Ev("create_release_tag") EXCEPT !.ok = ok])
         /\ IF ok
            THEN pc' = "done" /\ result' = Some(TRUE) /\ exc' = exc
                 /\ records' = records
            ELSE Raise("VcsError") /\ result' = result
                 /\ records' = [records EXCEPT ![ver] = None]
    /\ UNCHANGED <<installed, runs, head, now, bdirs, cache,
                   metadata, retry, call, builds, i, r, plan, last, info, pre>>

\* Lines 204-207: the tag is created, and release() returns True.
release_tag ==
    /\ pc = "tag"
    /\ \E ok \in BOOLEAN :
         /\ trace' = Append(trace, [Ev("create_release_tag") EXCEPT !.ok = ok])
         /\ IF ok
            THEN pc' = "done" /\ result' = Some(TRUE) /\ exc' = exc
            ELSE Raise("VcsError") /\ result' = result
    /\ UNCHANGED <<installed, records, runs, head, now, bdirs, cache,
                   metadata, retry, call, builds, i, r, plan, last, info, pre>>

(* ----------------------------- specification --------------------------- *)
Next ==
    \/ __init__
    \/ Commit
    \/ Tick
    \/ build
    \/ _build_dirs
    \/ _build_env
    \/ _build_run
    \/ release
    \/ release_last
    \/ release_verify
    \/ release_install
    \/ release_info
    \/ release_write
    \/ release_tag

Spec == Init /\ [][Next]_vars

\* The release protocol alone: release() invocations over a working tree
\* that is edited and committed to in between.
NextRelease ==
    \/ __init__
    \/ Commit
    \/ Tick
    \/ _build_dirs
    \/ _build_env
    \/ _build_run
    \/ release
    \/ release_last
    \/ release_verify
    \/ release_install
    \/ release_info
    \/ release_write
    \/ release_tag

SpecRelease == Init /\ [][NextRelease]_vars

\* Local builds alone: build() invocations, clean or not, installing or not.
NextBuild ==
    \/ __init__local
    \/ Tick
    \/ build
    \/ _build_dirs
    \/ _build_env
    \/ _build_run

SpecBuild == InitBuild /\ [][NextBuild]_vars

(* ================================ claims =============================== *)
HasEv(op) == \E k \in 1..Len(trace) : trace[k].op = op
IsRelease == trace # <<>> /\ trace[1].op = "validate_repostate"
Ended == pc \in {"done", "raised"}

(* C1: release() fails with ReleaseError whenever at least one installed   *)
(* version is greater than or equal to the target version, whatever the    *)
(* order the installed versions are enumerated in; it never proceeds to    *)
(* the build (pc = "verify") and never ends in another error in that case. *)
C1_ReleaseMonotonic ==
    /\ (pc = "verify" => \A v \in installed : v < ver)
    /\ (pc = "raised" /\ exc = "IOError" => \A v \in installed : v < ver)

(* C2: a release rejected by a prerequisite check (validate_repostate      *)
(* failed on a dirty tree, or _get_last_release raised ReleaseError) ends  *)
(* in ReleaseError having made no call but the two checks, and leaves the  *)
(* build tree, the release path and the release records as they were.      *)
Rejected ==
    IsRelease /\ (~trace[1].ok \/ (pc = "raised" /\ exc = "ReleaseError"))

C2_RejectedReleaseHasNoEffect ==
    Rejected =>
        /\ pc = "raised" /\ exc = "ReleaseError"
        /\ \A k \in 1..Len(trace) :
              trace[k].op \in {"validate_repostate", "iter_packages_in_range"}
        /\ Snapshot = pre

\* A release rejected by the monotonicity check, with a build directory and
\* an installed version at hand.
C2_Witness ==
    /\ Rejected
    /\ Len(trace) = 2 /\ trace[2].op = "iter_packages_in_range"
    /\ bdirs # {} /\ installed # {}

(* C3: create_release_tag is called only after release.yaml of the new     *)
(* version was written in the same release(), and once it was called,      *)
(* whether it succeeded or failed, the record written is still there.      *)
C3_TagAfterRecord ==
    /\ (pc = "tag" => records[ver] = Some(release_record))
    /\ \A k \in 1..Len(trace) :
          trace[k].op = "create_release_tag" =>
              /\ \E j \in 1..(k - 1) : trace[j].op = "write_record"
              /\ records[ver] = Some(release_record)

\* The tag could not be created; the record is on disk.
C3_Witness ==
    /\ pc = "raised" /\ exc = "VcsError"
    /\ \E k \in 1..Len(trace) : trace[k].op = "create_release_tag" /\ ~trace[k].ok
    /\ records[ver] # None

(* C4: a unit failing in the verify pass means no adapter call with        *)
(* install=True, nothing copied or installed, no record and no tag; a unit *)
(* failing in the install pass means no record and no tag; release() then  *)
(* returns False.  It returns True only after every unit succeeded in both *)
(* passes, the record was written and the tag was created.                 *)
FailedIn(pass) ==
    \E k \in 1..Len(trace) :
        trace[k].op = "adapter" /\ trace[k].pass = pass /\ ~trace[k].ok

SucceededIn(pass, u) ==
    \E k \in 1..Len(trace) :
        trace[k].op = "adapter" /\ trace[k].pass = pass /\ trace[k].unit = u
        /\ trace[k].ok

C4_FailedPassAborts ==
    /\ (IsRelease /\ FailedIn("verify")) =>
          /\ \A k \in 1..Len(trace) : ~(trace[k].op = "adapter" /\ trace[k].install)
          /\ ~HasEv("copy") /\ ~HasEv("write_record") /\ ~HasEv("create_release_tag")
          /\ installed = pre.installed /\ records = pre.records
          /\ pc = "done" /\ result = Some(FALSE)
    /\ (IsRelease /\ FailedIn("install")) =>
          /\ ~HasEv("write_record") /\ ~HasEv("create_release_tag")
          /\ records = pre.records
          /\ pc = "done" /\ result = Some(FALSE)
    /\ (IsRelease /\ result = Some(TRUE)) =>
          /\ \A u \in 1..Len(builds) :
                SucceededIn("verify", u) /\ SucceededIn("install", u)
          /\ ~FailedIn("verify") /\ ~FailedIn("install")
          /\ records[ver] = Some(release_record)
          /\ \E k \in 1..Len(trace) :
                /\ trace[k].op = "create_release_tag" /\ trace[k].ok
                /\ \E j \in 1..(k - 1) : trace[j].op = "write_record"

\* The install pass failed after the build system had put the package
\* into the release path: no record was written.
C4_Witness ==
    /\ IsRelease /\ FailedIn("install")
    /\ ver \in installed /\ records[ver] = None

(* C5: in a build whose build system fails first on unit j (and whose      *)
(* environments all resolve), the adapter is invoked exactly once for each *)
(* of units 1..j in order and for no later unit, nothing is done for a     *)
(* later unit, and _build returns False.                                   *)
IsAdapter(e) == e.op = "adapter"
AdapterCalls == SelectSeq(trace, IsAdapter)
FirstFailing == CHOOSE j \in plan : \A k \in plan : j <= k

C5_FailFast ==
    (call.pass = "local" /\ Ended /\ exc # "ResolutionError" /\ plan # {}) =>
        /\ Len(AdapterCalls) = FirstFailing
        /\ \A k \in 1..Len(AdapterCalls) : AdapterCalls[k].unit = k
        /\ \A k \in 1..Len(trace) : trace[k].unit <= FirstFailing
        /\ pc = "done" /\ result = Some(FALSE)

(* C6: in a release(), the environment handed to the adapter for a unit in *)
(* the install pass is the one resolved for that unit, and handed to the   *)
(* adapter, in the verify pass of the same release(); the resolver is not  *)
(* invoked in the install pass.                                            *)
C6_SameEnvironments ==
    IsRelease =>
        /\ \A k \in 1..Len(trace) :
              ~(trace[k].op = "resolve" /\ trace[k].pass = "install")
        /\ \A k \in 1..Len(trace) :
              (trace[k].op = "adapter" /\ trace[k].pass = "install") =>
                  \E j \in 1..(k - 1) :
                      /\ trace[j].op = "adapter" /\ trace[j].pass = "verify"
                      /\ trace[j].unit = trace[k].unit
                      /\ trace[j].env = trace[k].env
                      /\ \E h \in 1..(j - 1) :
                            /\ trace[h].op = "resolve" /\ trace[h].pass = "verify"
                            /\ trace[h].ok
                            /\ trace[h].unit = trace[k].unit
                            /\ trace[h].env = trace[k].env

\* The install pass ran the build system after the clock had moved on from
\* the time of the resolve.
C6_Witness ==
    /\ IsRelease
    /\ \E k \in 1..Len(trace) :
          /\ trace[k].op = "adapter" /\ trace[k].pass = "install"
          /\ trace[k].env # None
          /\ trace[k].env[1].timestamp < now

(* C7: in a build with clean=False over a unit whose build.rxt exists, the *)
(* resolver is not invoked and the adapter gets the persisted environment; *)
(* in a build with clean=True the unit's build directory and build.rxt are *)
(* removed first and the environment is resolved anew and saved.  In both  *)
(* cases build.rxt afterwards holds what the adapter got, which is what a  *)
(* following build with clean=False loads.                                 *)
C7_CacheHitAndMiss ==
    call.pass = "local" =>
        \A k \in 1..Len(trace) :
            trace[k].op = "adapter" =>
                LET p == trace[k].path
                    e == trace[k].env
                IN  /\ p \in DOMAIN cache /\ e = Some(cache[p])
                    /\ (~call.clean /\ p \in DOMAIN pre.cache) =>
                          /\ e = Some(pre.cache[p])
                          /\ \A j \in 1..Len(trace) :
                                ~(trace[j].op = "resolve" /\ trace[j].path = p)
                    /\ call.clean =>
                          /\ p \in pre.bdirs =>
                                \E j \in 1..(k - 1) :
                                    trace[j].op = "rmtree" /\ IsPrefix(trace[j].path, p)
                          /\ \E j \in 1..(k - 1) :
                                /\ trace[j].op = "resolve" /\ trace[j].path = p
                                /\ trace[j].env = e
                                /\ trace[j + 1].op = "save" /\ trace[j + 1].env = e

\* A build with clean=False loaded an environment resolved at an earlier
\* time and handed it to the adapter.
C7_Witness ==
    /\ call.pass = "local" /\ ~call.clean /\ pc = "done"
    /\ HasEv("load") /\ ~HasEv("resolve")
    /\ \E k \in 1..Len(trace) :
          /\ trace[k].op = "adapter"
          /\ trace[k].env # None
          /\ trace[k].env[1].timestamp < now

(* C10: _get_build_list returns one unit per variant, in declaration order *)
(* with variant_index = position, and one unit with no index and subdir "" *)
(* for a package without variants; every unit's subdir can be joined to    *)
(* build_path and install_path, and no two units share a subdir.           *)
C10_VariantPlanning ==
    builds # <<>> =>
        /\ IF metadata.variants # <<>>
           THEN /\ Len(builds) = Len(metadata.variants)
                /\ \A n \in 1..Len(builds) : builds[n].variant_index = Some(n - 1)
           ELSE /\ Len(builds) = 1
                /\ builds[1].variant_index = None
                /\ builds[1].subdir = EmptyStr
        /\ \A n \in 1..Len(builds) : Joinable(builds[n].subdir)
        /\ \A m, n \in 1..Len(builds) :
              m # n => builds[m].subdir # builds[n].subdir

(* C8: after a successful release of version V the record written has      *)
(* previous_version = the highest installed version below V, and none when *)
(* no lower version is installed.                                          *)
HighestBelow(S, v) ==
    LET L == { x \in S : x < v }
    IN  IF L = {} THEN None ELSE Some(CHOOSE x \in L : \A y \in L : y <= x)

C8_PreviousVersion ==
    (IsRelease /\ pc = "done" /\ result = Some(TRUE)) =>
        /\ records[ver] # None
        /\ records[ver][1].previous_version = HighestBelow(installed, ver)

(* C9: after successful releases, every record with a previous_version has *)
(* previous_revision = the revision of the record stored for that version, *)
(* its changelog is the VCS's changelog since that previous_revision, and  *)
(* a record without previous_version has no previous_revision.             *)
ChainedRecord(v) ==
    LET rec == records[v][1] IN
    /\ rec.previous_version = None => rec.previous_revision = None
    /\ rec.previous_version # None =>
          /\ records[rec.previous_version[1]] # None
          /\ rec.previous_revision =
                Some(records[rec.previous_version[1]][1].revision)
    /\ rec.changelog = get_changelog(rec.previous_revision, rec.revision)

C9_ProvenanceChain ==
    (pc = "ready" \/ (pc = "done" /\ result = Some(TRUE))) =>
        \A v \in Versions : records[v] # None => ChainedRecord(v)

(* C11: when a unit's adapter call succeeds and install is true, every    *)
(* file the adapter reported and then the unit's build.rxt are copied into *)
(* install_path/name[/version]/subdir (no version segment for a package     *)
(* with no version); nothing is copied when install is false or when the   *)
(* adapter reported failure.                                               *)
InstallRoot(e) == IF e.pass = "local" THEN "local" ELSE "release"
UnitInstallPath(e) ==
    <<InstallRoot(e), Name>>
        \o (IF metadata.version = None THEN <<>> ELSE <<str(metadata.version[1])>>)
        \o builds[e.unit].subdir.parts
CopiedFiles(e) == e.files \o <<"build.rxt">>
IsCopy(e) == e.op = "copy"

C11_InstallCopy ==
    \A k \in 1..Len(trace) :
        /\ ( IsAdapter(trace[k]) /\ trace[k].ok /\ trace[k].install
             => /\ Len(trace) >= k + Len(CopiedFiles(trace[k]))
                /\ \A j \in 1..Len(CopiedFiles(trace[k])) :
                      /\ IsCopy(trace[k + j])
                      /\ trace[k + j].file = CopiedFiles(trace[k])[j]
                      /\ trace[k + j].path = trace[k].path
                      /\ trace[k + j].dest = UnitInstallPath(trace[k])
                /\ ( Len(trace) > k + Len(CopiedFiles(trace[k]))
                     => ~IsCopy(trace[k + Len(CopiedFiles(trace[k])) + 1]) ) )
        /\ ( IsAdapter(trace[k]) /\ ~(trace[k].ok /\ trace[k].install)
             => (Len(trace) > k => ~IsCopy(trace[k + 1])) )
        /\ ( IsCopy(trace[k])
             => k > 1 /\ (IsCopy(trace[k - 1]) \/ IsAdapter(trace[k - 1])) )

\* An installing build of a package with no version copied the reported
\* library and then the cache file into local/pkg.
C11_Witness ==
    /\ pc = "done" /\ result = Some(TRUE)
    /\ metadata.version = None
    /\ call.install
    /\ \E k \in 1..Len(trace) :
          /\ IsAdapter(trace[k]) /\ trace[k].files = <<"lib.so">>
          /\ Len(trace) = k + 2
          /\ trace[k + 1].file = "lib.so" /\ trace[k + 1].dest = <<"local", Name>>
          /\ trace[k + 2].file = "build.rxt" /\ trace[k + 2].dest = <<"local", Name>>

(* C12: a release() re-run for the version whose earlier release wrote its *)
(* record and then failed to create the tag is not rejected: on a clean    *)
(* working tree it does not end with ReleaseError.                         *)
C12_RetryAfterTagFailure ==
    retry /\ IsRelease /\ trace[1].ok
        => ~(pc = "raised" /\ exc = "ReleaseError")

(* C13: in a release, the adapter calls of a pass are for units 1, 2, ...  *)
(* of the build list in that order; every adapter call with install false  *)
(* comes before every adapter call with install true; the previous record  *)
(* is read before the new record is written; and the revision and the      *)
(* changelog are asked for only after the install pass called the adapter  *)
(* for every unit with success.                                            *)
InPass(k, pass) == IsAdapter(trace[k]) /\ trace[k].pass = pass
\* The adapter calls of the pass are for units 1, 2, ... in this order.
InBuildOrder(pass) ==
    \A k \in 1..Len(trace) :
        InPass(k, pass) =>
            /\ trace[k].unit \in 1..Len(_get_build_list(metadata))
            /\ trace[k].path = os_path_join(ReleaseBuildBase,
                                _get_build_list(metadata)[trace[k].unit].subdir)
            /\ \A j \in 1..(k - 1) : InPass(j, pass) => trace[j].unit < trace[k].unit
            /\ ( trace[k].unit > 1
                 => \E j \in 1..(k - 1) :
                       InPass(j, pass) /\ trace[j].unit = trace[k].unit - 1 )
\* The pass called the adapter for the last unit of the build list.
ReachedLastUnit(pass) ==
    \E k \in 1..Len(trace) :
        InPass(k, pass) /\ trace[k].unit = Len(_get_build_list(metadata))
IsVcsQuery(e) == e.op \in {"get_current_revision", "get_changelog"}

C13_ReleaseOrdering ==
    IsRelease =>
        /\ InBuildOrder("verify") /\ InBuildOrder("install")
        /\ \A k \in 1..Len(trace) :
              /\ ( IsAdapter(trace[k])
                   => /\ trace[k].pass \in {"verify", "install"}
                      /\ trace[k].install = (trace[k].pass = "install") )
              /\ ( IsAdapter(trace[k]) /\ trace[k].install
                   => \A j \in (k + 1)..Len(trace) :
                         IsAdapter(trace[j]) => trace[j].install )
              /\ ( trace[k].op = "write_record"
                   => \A j \in k..Len(trace) : trace[j].op # "read_record" )
              /\ ( IsVcsQuery(trace[k])
                   => /\ ReachedLastUnit("install")
                      /\ \A j \in 1..Len(trace) :
                            IsAdapter(trace[j]) => j < k /\ trace[j].ok )

\* A release after an earlier one ran to its end: both passes called the
\* adapter, the previous record was read and the new one written.
C13_Witness ==
    /\ IsRelease /\ pc = "done" /\ result = Some(TRUE)
    /\ HasEv("read_record") /\ HasEv("write_record") /\ HasEv("get_changelog")
    /\ ReachedLastUnit("verify") /\ ReachedLastUnit("install")

(* C14: when the resolver cannot satisfy the requirements of a unit, no    *)
(* build.rxt is saved for the unit, the adapter is called neither for it   *)
(* nor for a later unit, and the invocation ends in failure with nothing   *)
(* installed, copied, recorded or tagged.                                  *)
ResolveFailed(k) == trace[k].op = "resolve" /\ ~trace[k].ok

C14_ResolutionFailFast ==
    \A k \in 1..Len(trace) :
        ResolveFailed(k) =>
            /\ k = Len(trace)
            /\ pc = "raised" /\ exc = "ResolutionError" /\ result = None
            /\ trace[k].path \notin DOMAIN cache
            /\ \A j \in 1..Len(trace) :
                  /\ trace[j].op \notin {"copy", "write_record", "create_release_tag",
                                          "get_current_revision", "get_changelog"}
                  /\ ( IsAdapter(trace[j]) /\ trace[j].pass = trace[k].pass
                       => trace[j].unit < trace[k].unit )
                  /\ ( IsAdapter(trace[j]) => ~trace[j].install )
            /\ installed = pre.installed /\ records = pre.records

\* The verify pass of a release made the build directory of its unit and
\* could not resolve the unit's requirements.
C14_Witness ==
    /\ IsRelease /\ pc = "raised" /\ exc = "ResolutionError"
    /\ ResolveFailed(Len(trace))
    /\ trace[Len(trace)].pass = "verify"
    /\ trace[Len(trace)].path \in bdirs

(* C15: the request of the unit of variant k is build_requires, then       *)
(* requires, then the tokens of variant k, in their declared order, and    *)
(* the request of the single unit of a package with no variants is         *)
(* build_requires then requires; this is the request handed to the         *)
(* resolver; and the descriptor is the same after planning and building.   *)
RequestOf(k) ==
    metadata.build_requires \o metadata.requires
        \o (IF metadata.variants = <<>> THEN <<>> ELSE metadata.variants[k])
UnitsOf == IF metadata.variants = <<>> THEN 1 ELSE Len(metadata.variants)

C15_Requests ==
    /\ builds # <<>> =>
          /\ Len(builds) = UnitsOf
          /\ \A k \in 1..Len(builds) : builds[k].requires = RequestOf(k)
    /\ \A k \in 1..Len(trace) :
          trace[k].op = "resolve" /\ trace[k].ok
              => trace[k].env = Some(ResolvedContext(RequestOf(trace[k].unit),
                                                     trace[k].env[1].timestamp))

\* Only the construction of a new process object loads a descriptor.
C15_DescriptorKept == [][pc \notin {"done", "raised"} => metadata' = metadata]_vars

C15_RequirementsOfUnit == []C15_Requests /\ C15_DescriptorKept

\* A build of a package with no variants resolved cmake, bar for its unit.
C15_Witness ==
    /\ metadata.variants = <<>>
    /\ \E k \in 1..Len(trace) :
          /\ trace[k].op = "resolve" /\ trace[k].ok
          /\ trace[k].env[1].request = <<"cmake", "bar">>

(* C16: a clean build over a list of more than one unit, in which the      *)
(* resolver and the build system succeed for every unit, removes for each  *)
(* unit only that unit's build directory: it ends successfully and the     *)
(* build.rxt saved for every unit during the build is still there.         *)
SavedIn(p) ==
    \E k \in 1..Len(trace) : trace[k].op = "save" /\ trace[k].path = p
                             /\ p \in DOMAIN cache /\ Some(cache[p]) = trace[k].env

AboveAllInstalled == \A v \in pre.installed : v < ver

C17_LeftoverDoesNotBlock ==
    /\ pc = "ready" => \A v \in installed : records[v] # None
    /\ IsRelease /\ trace[1].ok /\ AboveAllInstalled
          => ~(pc = "raised" /\ exc = "IOError")

====
